---- MODULE Spec2Model ----
(***************************************************************************)
(* data_collection.py: download, extract and convert LibriSpeech and       *)
(* UrbanSound8K.  The state is the filesystem under RealTime_Denoise_App   *)
(* plus the position of the single thread running the script; every run of *)
(* the script starts at the module-level logging.basicConfig call and      *)
(* ends either after main() logs completion or with an uncaught exception. *)
(***************************************************************************)
EXTENDS Naturals, Sequences, FiniteSets

\* Bounds of the model.
MaxMembers == 2     \* members of the two LibriSpeech archives served, together
MaxRuns == 2        \* times the script is started on the same filesystem

\* LIBRISPEECH_URLS (two entries, in order) and URBANSOUND8K_URL.
LIBRISPEECH_URLS == <<"train-clean-100", "dev-clean">>
URBANSOUND8K_URL == "UrbanSound8K"
Libri == {LIBRISPEECH_URLS[i] : i \in 1..Len(LIBRISPEECH_URLS)}
Sources == Libri \cup {URBANSOUND8K_URL}

\* What a tar member of a LibriSpeech archive can be: a .flac whose name puts
\* it under extract_dir (<archive name without .tar.gz>/...), a .flac whose
\* name puts it elsewhere under LIBRISPEECH_DIR (the published archives use
\* LibriSpeech/<name>/...), or a member that is not a .flac.
MemberKinds == {"in", "out", "other"}

RECURSIVE SeqsUpTo(_, _)
SeqsUpTo(S, n) ==
    IF n = 0 THEN {<<>>}
    ELSE LET shorter == SeqsUpTo(S, n - 1)
         IN shorter \cup {Append(q, x) : q \in {r \in shorter : Len(r) = n - 1}, x \in S}

Archives == SeqsUpTo(MemberKinds, MaxMembers)

\* The pairs of archives the mirror can serve within the bound.
Served ==
    {f \in [Libri -> Archives] :
        Len(f[LIBRISPEECH_URLS[1]]) + Len(f[LIBRISPEECH_URLS[2]]) <= MaxMembers}

\* The bytes found at an archive's destination path.
\*   absent    no file
\*   empty     created by open(filepath, 'wb') and never written
\*   truncated cut inside the member data
\*   tailcut   cut after the last member (end-of-archive padding or gzip trailer)
\*   garbage   the body of an HTTP error response
\*   full      the served archive, byte for byte
ArchiveStates == {"absent", "empty", "truncated", "tailcut", "garbage", "full"}

VARIABLES
    served,         \* [Libri -> Archives]: the archive the mirror serves for each URL
    logsDir,        \* RealTime_Denoise_App/logs exists
    libriDir,       \* LIBRISPEECH_DIR exists
    urbanDir,       \* URBANSOUND_DIR exists
    archive,        \* [Sources -> ArchiveStates]: the file at filepath
    extractDir,     \* [Libri -> BOOLEAN]: extract_dir exists
    files,          \* audio files on disk under LIBRISPEECH_DIR (set of paths)
    urbanOut,       \* "none", "some" or "all" UrbanSound8K members on disk
    marker,         \* [Sources -> BOOLEAN]: .<filename>.extracted exists
    pc,             \* position of the script
    cur,            \* index into LIBRISPEECH_URLS of the for loop (line 74)
    idx,            \* index into tar.getmembers() of the for loop (line 103)
    run,            \* number of the current run of the script
    prevDone,       \* the previous run logged completion
    gets,           \* [Sources -> Nat]: requests.get calls of this run
    opened,         \* [Sources -> BOOLEAN]: tarfile.open called in this run
    loopDone,       \* [Sources -> BOOLEAN]: the extraction that preceded the marker ended without raising
    abortCause,     \* what raised the uncaught exception that ended the run
    last,           \* the step just taken: [op, outcome, log], log the most severe logging call in it
    convFailed,     \* .flac paths whose latest conversion raised
    removedNoWav,   \* an os.remove of a .flac ran while its WAV path did not exist
    failedDeleted,  \* an os.remove deleted a .flac whose latest conversion raised
    reprocessed     \* a .flac was extracted and converted over an existing WAV

fsVars == <<served, logsDir, libriDir, urbanDir, archive, extractDir, files, urbanOut, marker>>
ctlVars == <<pc, cur, idx, run, prevDone, gets, opened, loopDone, abortCause, last>>
histVars == <<convFailed, removedNoWav, failedDeleted, reprocessed>>
vars == <<fsVars, ctlVars, histVars>>

\* ---------------------------------------------------------------- paths

\* flac_path = os.path.join(LIBRISPEECH_DIR, member.name) (line 106).  A path
\* is the archive it came from, whether it lies under that archive's
\* extract_dir, the member's stem and the extension.
FlacPath(s, i) == [src |-> s, dir |-> served[s][i], stem |-> i, ext |-> "flac"]

\* wav_path = flac_path.replace('.flac', '.wav') (lines 49, 62, 107); the
\* directory part of a member name holds no '.flac'.
WavPath(p) == [p EXCEPT !.ext = "wav"]

\* file.endswith('.flac') / member.name.endswith('.flac') (lines 47, 60, 104)
IsFlac(p) == p.ext = "flac"

\* os.walk(extract_dir): the files found under one archive's extract_dir.
Walk(s) == {p \in files : p.src = s /\ p.dir = "in"}

\* ---------------------------------------------------------------- helpers

\* is_extracted(directory, filename), lines 32-34
is_extracted(s) == marker[s]

\* check_flac_wav_conversion(directory), lines 43-54
check_flac_wav_conversion(s) ==
    \A p \in Walk(s) : IsFlac(p) => WavPath(p) \in files

\* delete_flac_files(directory), lines 57-70: the .flac files it calls
\* os.remove on.
DeleteCandidates(s) == {p \in Walk(s) : IsFlac(p) /\ WavPath(p) \in files}

\* line 80: the dataset counts as extracted
SkipCondition_MarkerIgnored(s) == extractDir[s]
SkipCondition(s) == extractDir[s] /\ is_extracted(s)

NoStep == [op |-> "none", outcome |-> "none", log |-> "none"]
Step(op, outcome, log) == [op |-> op, outcome |-> outcome, log |-> log]

\* A machine on which the script has never run: nothing under datasets, and
\* the logs directory either missing or made by hand.
Init ==
    /\ served \in Served
    /\ logsDir \in BOOLEAN
    /\ libriDir = FALSE
    /\ urbanDir = FALSE
    /\ archive = [s \in Sources |-> "absent"]
    /\ extractDir = [s \in Libri |-> FALSE]
    /\ files = {}
    /\ urbanOut = "none"
    /\ marker = [s \in Sources |-> FALSE]
    /\ pc = "logging"
    /\ cur = 1
    /\ idx = 1
    /\ run = 1
    /\ prevDone = FALSE
    /\ gets = [s \in Sources |-> 0]
    /\ opened = [s \in Sources |-> FALSE]
    /\ loopDone = [s \in Sources |-> FALSE]
    /\ abortCause = "none"
    /\ last = NoStep
    /\ convFailed = {}
    /\ removedNoWav = FALSE
    /\ failedDeleted = FALSE
    /\ reprocessed = FALSE

\* logging.basicConfig(filename='RealTime_Denoise_App/logs/data_collection.log')
\* at import, lines 9-10: the FileHandler opens the log file at once.
SetupLogging ==
    /\ pc = "logging"
    /\ IF logsDir
       THEN /\ pc' = "create_directories"
            /\ abortCause' = abortCause
            /\ last' = Step("logging", "ok", "none")
       ELSE /\ pc' = "aborted"
            /\ abortCause' = "logging"
            /\ last' = Step("logging", "raise", "none")
    /\ UNCHANGED <<fsVars, cur, idx, run, prevDone, gets, opened, loopDone, histVars>>

\* create_directories(), lines 26-29
create_directories ==
    /\ pc = "create_directories"
    /\ libriDir' = TRUE
    /\ urbanDir' = TRUE
    /\ logsDir' = TRUE
    /\ pc' = "libri_check"
    /\ cur' = 1
    /\ last' = Step("create_directories", "ok", "none")
    /\ UNCHANGED <<served, archive, extractDir, files, urbanOut, marker,
                   idx, run, prevDone, gets, opened, loopDone, abortCause, histVars>>

\* The for loop of download_librispeech moves to its next URL (line 74), or
\* the function returns and main() calls download_urbansound8k (line 158).
Advance ==
    IF cur < Len(LIBRISPEECH_URLS)
    THEN pc' = "libri_check" /\ cur' = cur + 1
    ELSE pc' = "urban_download" /\ cur' = cur

\* download_librispeech, lines 75-87: the skip branch of one URL.
LibriCheck ==
    /\ pc = "libri_check"
    /\ LET s == LIBRISPEECH_URLS[cur] IN
       IF SkipCondition(s)
       THEN /\ IF check_flac_wav_conversion(s)
               THEN \E kept \in SUBSET DeleteCandidates(s) :    \* os.remove raised, line 68
                      LET removed == DeleteCandidates(s) \ kept IN
                      /\ files' = files \ removed
                      /\ removedNoWav' =
                            (removedNoWav \/ \E p \in removed : WavPath(p) \notin files)
                      /\ failedDeleted' =
                            (failedDeleted \/ \E p \in removed : p \in convFailed)
                      /\ last' = Step("libri_skip", "deleted",
                                      IF kept = {} THEN "info" ELSE "error")
               ELSE /\ UNCHANGED <<files, removedNoWav, failedDeleted>>
                    /\ last' = Step("libri_skip", "missing_wav", "warning")
            /\ Advance
       ELSE /\ pc' = "libri_download"
            /\ cur' = cur
            /\ last' = Step("libri_check", "not_extracted", "none")
            /\ UNCHANGED <<files, removedNoWav, failedDeleted>>
    /\ UNCHANGED <<served, logsDir, libriDir, urbanDir, archive, extractDir, urbanOut,
                   marker, idx, run, prevDone, gets, opened, loopDone, abortCause,
                   convFailed, reprocessed>>

\* What one pass through the download block (lines 90-97, 133-140) can do:
\*   get_raise      requests.get raises before open(filepath, 'wb')
\*   content_raise  the file is created, then response.content raises
\*   write_cut      f.write raises inside the member data
\*   write_tailcut  f.write raises after the last member's data
\*   error_body     the server answers with an error page; no status check
\*   ok             the archive is written in full
DownloadOutcomes ==
    {"get_raise", "content_raise", "write_cut", "write_tailcut", "error_body", "ok"}
DownloadRaises(o) == o \in {"get_raise", "content_raise", "write_cut", "write_tailcut"}
Written(o) ==
    CASE o = "get_raise" -> "absent"
      [] o = "content_raise" -> "empty"
      [] o = "write_cut" -> "truncated"
      [] o = "write_tailcut" -> "tailcut"
      [] o = "error_body" -> "garbage"
      [] o = "ok" -> "full"

\* if not os.path.exists(filepath), lines 90 and 133
NeedsDownload(s) == archive[s] = "absent"

\* The download block for source s; on to position `then` when nothing raises.
Download(s, then) ==
    IF NeedsDownload(s)
    THEN \E o \in DownloadOutcomes :
           /\ gets' = [gets EXCEPT ![s] = @ + 1]
           /\ archive' = [archive EXCEPT ![s] = Written(o)]
           /\ IF DownloadRaises(o)
              THEN pc' = "aborted" /\ abortCause' = "download"
              ELSE pc' = then /\ abortCause' = abortCause
           /\ last' = Step("download", o, "info")
    ELSE /\ pc' = then
         /\ last' = Step("download", "exists", "none")
         /\ UNCHANGED <<gets, archive, abortCause>>

\* download_librispeech, lines 89-97
LibriDownload ==
    /\ pc = "libri_download"
    /\ Download(LIBRISPEECH_URLS[cur], "libri_open")
    /\ UNCHANGED <<served, logsDir, libriDir, urbanDir, extractDir, files, urbanOut,
                   marker, cur, idx, run, prevDone, opened, loopDone, histVars>>

\* tarfile.open(filepath, 'r:gz') and reading the member headers to the
\* end-of-archive block succeed on these files and raise on the others.
Readable(a) == a \in {"full", "tailcut"}

\* download_librispeech, lines 100-103: tarfile.open and tar.getmembers()
LibriOpen ==
    /\ pc = "libri_open"
    /\ LET s == LIBRISPEECH_URLS[cur] IN
       /\ opened' = [opened EXCEPT ![s] = TRUE]
       /\ IF Readable(archive[s])
          THEN /\ pc' = "libri_member"
               /\ idx' = 1
               /\ abortCause' = abortCause
               /\ last' = Step("open", "ok", "info")
          ELSE /\ pc' = "aborted"
               /\ idx' = idx
               /\ abortCause' = "open"
               /\ last' = Step("open", "raise", "info")
    /\ UNCHANGED <<fsVars, cur, run, prevDone, gets, loopDone, histVars>>

\* What lines 105-122 can do with one .flac member:
\*   extract_raise     tar.extract raises before writing anything (line 105)
\*   extract_cut       tar.extract raises while writing the member's data
\*   load_raise        librosa.load raises (line 111)
\*   write_raise       sf.write raises and leaves no file (line 112)
\*   write_raise_file  sf.write raises after creating the file (line 112)
\*   remove_raise      os.remove raises (line 117)
\*   ok                nothing raises
MemberOutcomes ==
    {"extract_raise", "extract_cut", "load_raise", "write_raise", "write_raise_file",
     "remove_raise", "ok"}
ConversionFailures == {"load_raise", "write_raise", "write_raise_file"}

\* tar.extract(member, LIBRISPEECH_DIR) created the member's directories and
\* its file
Extracts(o) == o # "extract_raise"
\* lines 106-122 are reached
Converts(o) == o \notin {"extract_raise", "extract_cut"}
\* sf.write(wav_path, audio, 16000) left a file at wav_path
WritesWav(o) == o \in {"write_raise_file", "remove_raise", "ok"}
\* os.remove(flac_path), reached only when load and write returned (line 117)
RemovesFlac_OnFailureToo(o) == o \in {"load_raise", "write_raise", "write_raise_file", "ok"}
RemovesFlac(o) == o = "ok"
\* try ... except Exception, lines 109-122
Caught_LoadOnly(o) == o = "load_raise"
Caught(o) == o \in {"load_raise", "write_raise", "write_raise_file", "remove_raise"}

\* download_librispeech, lines 103-122: one iteration over tar.getmembers()
LibriMember ==
    /\ pc = "libri_member"
    /\ idx <= Len(served[LIBRISPEECH_URLS[cur]])
    /\ LET s == LIBRISPEECH_URLS[cur]
           p == FlacPath(s, idx)
       IN
       IF served[s][idx] = "other"
       THEN /\ idx' = idx + 1
            /\ pc' = pc
            /\ last' = Step("member", "not_flac", "none")
            /\ UNCHANGED <<files, extractDir, abortCause, histVars>>
       ELSE \E o \in MemberOutcomes :
              LET extracted == IF Extracts(o) THEN files \cup {p} ELSE files
                  written == IF WritesWav(o) THEN extracted \cup {WavPath(p)} ELSE extracted
              IN
              /\ files' = IF RemovesFlac(o) THEN written \ {p} ELSE written
              /\ extractDir' =
                    IF Extracts(o) /\ p.dir = "in"
                    THEN [extractDir EXCEPT ![s] = TRUE] ELSE extractDir
              /\ reprocessed' = (reprocessed \/ (Converts(o) /\ WavPath(p) \in files))
              /\ removedNoWav' =
                    (removedNoWav \/ (RemovesFlac(o) /\ WavPath(p) \notin written))
              /\ failedDeleted' =
                    (failedDeleted \/ (RemovesFlac(o) /\ o \in ConversionFailures))
              /\ convFailed' =
                    IF o \in ConversionFailures THEN convFailed \cup {p}
                    ELSE IF Converts(o) THEN convFailed \ {p} ELSE convFailed
              /\ IF o = "ok" \/ Caught(o)
                 THEN /\ idx' = idx + 1
                      /\ pc' = pc
                      /\ abortCause' = abortCause
                      /\ last' = Step("member", o, IF o = "ok" THEN "info" ELSE "error")
                 ELSE /\ idx' = idx
                      /\ pc' = "aborted"
                      /\ abortCause' = IF Converts(o) THEN "convert" ELSE "extract"
                      /\ last' = Step("member", o, "none")
    /\ UNCHANGED <<served, logsDir, libriDir, urbanDir, archive, urbanOut, marker,
                   cur, run, prevDone, gets, opened, loopDone>>

\* mark_as_extracted(directory, filename), lines 37-40
mark_as_extracted(s) == marker' = [marker EXCEPT ![s] = TRUE]

\* download_librispeech, lines 123-126: the loop over the members is over,
\* the archive is closed and marked.
LibriMark ==
    /\ pc = "libri_member"
    /\ idx > Len(served[LIBRISPEECH_URLS[cur]])
    /\ loopDone' = [loopDone EXCEPT ![LIBRISPEECH_URLS[cur]] = TRUE]
    /\ mark_as_extracted(LIBRISPEECH_URLS[cur])
    /\ Advance
    /\ last' = Step("mark", "ok", "info")
    /\ UNCHANGED <<served, logsDir, libriDir, urbanDir, archive, extractDir, files,
                   urbanOut, idx, run, prevDone, gets, opened, abortCause, histVars>>

\* download_urbansound8k, lines 130-140
UrbanDownload ==
    /\ pc = "urban_download"
    /\ Download(URBANSOUND8K_URL, "urban_extract")
    /\ UNCHANGED <<served, logsDir, libriDir, urbanDir, extractDir, files, urbanOut,
                   marker, cur, idx, run, prevDone, opened, loopDone, histVars>>

\* download_urbansound8k, lines 142-152
UrbanExtract ==
    /\ pc = "urban_extract"
    /\ LET s == URBANSOUND8K_URL IN
       IF ~is_extracted(s)
       THEN /\ opened' = [opened EXCEPT ![s] = TRUE]
            /\ IF Readable(archive[s])
               THEN /\ urbanOut' = "all"
                    /\ loopDone' = [loopDone EXCEPT ![s] = TRUE]
                    /\ mark_as_extracted(s)
                    /\ pc' = "complete"
                    /\ abortCause' = abortCause
                    /\ last' = Step("urban_extract", "ok", "info")
               ELSE /\ urbanOut' =
                          IF archive[s] = "truncated" /\ urbanOut = "none"
                          THEN "some" ELSE urbanOut
                    /\ pc' = "aborted"
                    /\ abortCause' = IF archive[s] = "truncated" THEN "extract" ELSE "open"
                    /\ last' = Step("urban_extract", "raise", "info")
                    /\ UNCHANGED <<marker, loopDone>>
       ELSE /\ pc' = "complete"
            /\ last' = Step("urban_extract", "skipped", "info")
            /\ UNCHANGED <<opened, urbanOut, marker, loopDone, abortCause>>
    /\ UNCHANGED <<served, logsDir, libriDir, urbanDir, archive, extractDir, files,
                   cur, idx, run, prevDone, gets, histVars>>

\* main(), lines 159-160
Complete ==
    /\ pc = "complete"
    /\ pc' = "done"
    /\ last' = Step("complete", "ok", "info")
    /\ UNCHANGED <<fsVars, cur, idx, run, prevDone, gets, opened, loopDone, abortCause, histVars>>

\* The script is started again on the filesystem the last run left
\* (lines 162-163).
Rerun ==
    /\ pc \in {"done", "aborted"}
    /\ run < MaxRuns
    /\ run' = run + 1
    /\ prevDone' = (pc = "done")
    /\ pc' = "logging"
    /\ cur' = 1
    /\ idx' = 1
    /\ gets' = [s \in Sources |-> 0]
    /\ opened' = [s \in Sources |-> FALSE]
    /\ abortCause' = "none"
    /\ last' = NoStep
    /\ UNCHANGED <<fsVars, loopDone, histVars>>

Next ==
    \/ SetupLogging
    \/ create_directories
    \/ LibriCheck
    \/ LibriDownload
    \/ LibriOpen
    \/ LibriMember
    \/ LibriMark
    \/ UrbanDownload
    \/ UrbanExtract
    \/ Complete
    \/ Rerun

Spec == Init /\ [][Next]_vars

\* ---------------------------------------------------------------- properties

\* C1: when the previous run logged completion, this run calls requests.get
\* for no source and opens no archive for extraction.
C1_Idempotent ==
    prevDone => \A s \in Sources : gets[s] = 0 /\ ~opened[s]

\* C2: an archive whose bytes differ from the served archive is never handed
\* to tarfile.open: the mismatch is detected first and the file replaced.
C2_CorruptNeverExtracted ==
    \A s \in Sources : opened[s] => archive[s] = "full"

\* C3: a run ends on a download failure only after the URL was tried more
\* than once, and the failure is logged as an error.
C3_BoundedRetry ==
    abortCause = "download" => (\E s \in Sources : gets[s] > 1) /\ last.log = "error"

\* C4: the marker of an archive exists only if the archive was written to
\* disk completely and its extraction ran to the end without raising.
C4_MarkerSafety ==
    \A s \in Sources : marker[s] => archive[s] = "full" /\ loopDone[s]

\* C5: no run is ended by a failure to open or extract an archive; the
\* sources after it are still processed.
C5_ExtractionIsolated ==
    abortCause \notin {"open", "extract"}

C7_ConversionFailureSkipped ==
    [][(last'.op = "member" /\ last'.outcome \in ConversionFailures)
        => /\ pc' = "libri_member"
           /\ cur' = cur
           /\ idx' = idx + 1
           /\ abortCause' = "none"
           /\ last'.log = "error"]_vars

\* A member was converted after the conversion of an earlier member of the
\* same archive had raised in the same loop.
C7_Witness ==
    /\ pc = "libri_member"
    /\ last.op = "member" /\ last.outcome = "ok"
    /\ \E p \in convFailed : p.src = LIBRISPEECH_URLS[cur] /\ p.stem < idx - 1

\* C8: no .flac is extracted and converted while a file exists at its WAV
\* path.
C8_NoReprocessing ==
    ~reprocessed

\* C9: the log file is opened only when the logs directory exists, so no run
\* ends at the logging setup.
C9_DirectoriesFirst ==
    (last.op = "logging" => logsDir) /\ abortCause # "logging"

\* C10: when main() is at its completion message, the marker of every one of
\* the three archives exists.
C10_CompletionImpliesMarked ==
    pc \in {"complete", "done"} => \A s \in Sources : marker[s]

\* A second run completed after skipping a LibriSpeech archive at line 87.
C10_Witness ==
    pc = "done" /\ run > 1 /\ \E s \in Libri : ~opened[s]
====
